---- MODULE Spec2Model ----
(***************************************************************************)
(* Model of source/uwp/Renderer/Vector2.h: the WinRT IVector adapter       *)
(* borrowed::Vector<T>, its read-only VectorView and its VectorIterator,   *)
(* instantiated for a value element type (ElementTraits<T>, identity       *)
(* Wrap/Unwrap, operator== equality) over DefaultVectorTraits.             *)
(*                                                                         *)
(* One step of the model is one call of a boundary method (or of the       *)
(* owner's SetChanged).  Each method is an operator that maps the object   *)
(* state and the arguments to the HRESULT, the new object state and the    *)
(* contents of the output parameters; an action applies it and records the *)
(* call in `last`, and Return drops the record before the next call.       *)
(*                                                                         *)
(* The Vector is reference counted: the owner holds one reference and each *)
(* view and iterator holds one through its ComPtr member, until released.  *)
(*                                                                         *)
(* `unsigned` values are kept as their 32-bit pattern read as a two's      *)
(* complement integer (0xFFFFFFFF is -1), compared with the unsigned       *)
(* order ULt/UGe, so that size - 1 on an empty vector wraps as in C++.     *)
(***************************************************************************)
EXTENDS Integers, Sequences, FiniteSets, TLC

\* ---------------------------------------------------------------- bounds
\* Longest buffer the model explores.
MaxLen == 3
\* Element values are 0..MaxVal.
MaxVal == 1
\* Most iterators alive at once (two, so that one can move while another
\* stays).
MaxIters == 2
\* Most views alive at once.
MaxViews == 1

Values == 0..MaxVal

\* ------------------------------------------------------------- HRESULTs
S_OK == "S_OK"
E_INVALIDARG == "E_INVALIDARG"
E_BOUNDS == "E_BOUNDS"
E_NOTIMPL == "E_NOTIMPL"
E_OUTOFMEMORY == "E_OUTOFMEMORY"
E_UNEXPECTED == "E_UNEXPECTED"

\* ----------------------------------------------------------- exceptions
\* What a body ends with: no exception, an HResultException carrying hr,
\* std::bad_alloc, or any other exception type.
NoExc == [kind |-> "none", hr |-> S_OK]
ThrowHR(hr) == [kind |-> "HResultException", hr |-> hr]
ThrowBadAlloc == [kind |-> "bad_alloc", hr |-> S_OK]
ThrowOther == [kind |-> "other", hr |-> S_OK]

\* The faults the environment can inject into an allocating call: none,
\* an allocation failure, or another exception of the standard library.
NoFault == "none"
Faults == {NoFault, "bad_alloc", "other"}
FaultExc(fault) == IF fault = "bad_alloc" THEN ThrowBadAlloc ELSE ThrowOther

\* Mutant: no handler for std::bad_alloc, which falls to catch (...).
ThrownExceptionToHResult_NoBadAlloc(e) ==
    IF e.kind = "HResultException" THEN e.hr ELSE E_UNEXPECTED

ThrownExceptionToHResult(e) ==
    IF e.kind = "HResultException" THEN e.hr
    ELSE IF e.kind = "bad_alloc" THEN E_OUTOFMEMORY
    ELSE E_UNEXPECTED

ExceptionBoundary(e) ==
    IF e.kind = "none" THEN S_OK ELSE ThrownExceptionToHResult(e)

\* -------------------------------------------------------------- unsigned
\* The bit pattern 0xFFFFFFFF.
UINT_MAX == 0 - 1
ULt(a, b) == IF (a >= 0) = (b >= 0) THEN a < b ELSE a >= 0
UGe(a, b) == ~ULt(a, b)
UGt(a, b) == ULt(b, a)
\* a - 1 in unsigned arithmetic (a is never 0x80000000 here).
UDec(a) == a - 1

\* ------------------------------------------------------- output pointers
\* A pointer argument is either the null pointer, NullArg, or points to a
\* cell: Cell(v) is a pointer to a cell that holds v.  For an output
\* parameter the argument gives the cell's contents before the call and
\* the method's result gives them after it.
NullArg == << >>
Cell(v) == <<v>>
Deref(ptr) == ptr[1]
\* Interface pointers: the null pointer, a leftover of an earlier call, or
\* the object Make<> created.
nullptr == <<"nullptr", 0>>
StaleHandle == <<"stale", 0>>
Handle(class, id) == <<class, id>>

\* -------------------------------------------------------- ElementTraits
Wrap(value) == value
Unwrap(value) == value
Equals(value1, value2) == value1 = value2

\* --------------------------------------------------- DefaultVectorTraits
\* Each operation yields the exception it ends with and its result.
Traits_GetSize(vector) == Len(vector)

Traits_GetAt(vector, index) ==
    IF UGe(index, Len(vector))
    THEN [exc |-> ThrowHR(E_BOUNDS), value |-> 0]
    ELSE [exc |-> NoExc, value |-> vector[index + 1]]

\* Mutant: SetAt overwrites the first element whatever the index.
Traits_SetAt_First(vector, index, item) ==
    IF UGe(index, Len(vector))
    THEN [exc |-> ThrowHR(E_BOUNDS), vector |-> vector]
    ELSE [exc |-> NoExc, vector |-> [vector EXCEPT ![1] = Wrap(item)]]

Traits_SetAt(vector, index, item) ==
    IF UGe(index, Len(vector))
    THEN [exc |-> ThrowHR(E_BOUNDS), vector |-> vector]
    ELSE [exc |-> NoExc, vector |-> [vector EXCEPT ![index + 1] = Wrap(item)]]

\* Mutant: the bounds check of SetAt (index >= size) used for InsertAt.
Traits_InsertAt_Strict(vector, index, item, fault) ==
    IF UGe(index, Len(vector))
    THEN [exc |-> ThrowHR(E_BOUNDS), vector |-> vector]
    ELSE IF fault # NoFault
    THEN [exc |-> FaultExc(fault), vector |-> vector]
    ELSE [exc |-> NoExc,
          vector |-> SubSeq(vector, 1, index) \o <<Wrap(item)>>
                     \o SubSeq(vector, index + 1, Len(vector))]

Traits_InsertAt(vector, index, item, fault) ==
    IF UGt(index, Len(vector))
    THEN [exc |-> ThrowHR(E_BOUNDS), vector |-> vector]
    ELSE IF fault # NoFault
    THEN [exc |-> FaultExc(fault), vector |-> vector]
    ELSE [exc |-> NoExc,
          vector |-> SubSeq(vector, 1, index) \o <<Wrap(item)>>
                     \o SubSeq(vector, index + 1, Len(vector))]

\* Mutant: the bounds check of InsertAt (index > size) used for RemoveAt.
Traits_RemoveAt_OffByOne(vector, index) ==
    IF UGt(index, Len(vector))
    THEN [exc |-> ThrowHR(E_BOUNDS), vector |-> vector]
    ELSE [exc |-> NoExc,
          vector |-> SubSeq(vector, 1, index)
                     \o SubSeq(vector, index + 2, Len(vector))]

\* Mutant: RemoveAt moves the last element into the hole and drops the end.
Traits_RemoveAt_SwapLast(vector, index) ==
    IF UGe(index, Len(vector))
    THEN [exc |-> ThrowHR(E_BOUNDS), vector |-> vector]
    ELSE [exc |-> NoExc,
          vector |-> SubSeq([vector EXCEPT ![index + 1] = vector[Len(vector)]],
                            1, Len(vector) - 1)]

Traits_RemoveAt(vector, index) ==
    IF UGe(index, Len(vector))
    THEN [exc |-> ThrowHR(E_BOUNDS), vector |-> vector]
    ELSE [exc |-> NoExc,
          vector |-> SubSeq(vector, 1, index)
                     \o SubSeq(vector, index + 2, Len(vector))]

\* Mutant: Append puts the element in front.
Traits_Append_Front(vector, item, fault) ==
    IF fault # NoFault
    THEN [exc |-> FaultExc(fault), vector |-> vector]
    ELSE [exc |-> NoExc, vector |-> <<Wrap(item)>> \o vector]

Traits_Append(vector, item, fault) ==
    IF fault # NoFault
    THEN [exc |-> FaultExc(fault), vector |-> vector]
    ELSE [exc |-> NoExc, vector |-> Append(vector, Wrap(item))]

\* Mutant: Clear keeps the first element.
Traits_Clear_KeepFirst(vector) ==
    IF Len(vector) = 0 THEN << >> ELSE <<vector[1]>>

Traits_Clear(vector) == << >>

\* ------------------------------------------------------------------ Vector
\* A Vector object is [mVector, isFixedSize, isChanged].  Every method
\* yields [hr, vec, out, out2]: the HRESULT the ExceptionBoundary returns,
\* the object afterwards and the output cells afterwards (out2 is used by
\* IndexOf's second output only).
Returned(exc, vec, out, out2) ==
    [hr |-> ExceptionBoundary(exc), vec |-> vec, out |-> out, out2 |-> out2]

Vector_ctor(isFixedSize, args) ==
    [mVector |-> args, isFixedSize |-> isFixedSize, isChanged |-> FALSE]

Vector_SetChanged(vec, changed) == [vec EXCEPT !.isChanged = changed]

Vector_get_Size(vec, size) ==
    IF size = NullArg
    THEN Returned(ThrowHR(E_INVALIDARG), vec, size, NullArg)
    ELSE Returned(NoExc, vec, Cell(Traits_GetSize(vec.mVector)), NullArg)

Vector_GetAt(vec, index, item) ==
    IF item = NullArg
    THEN Returned(ThrowHR(E_INVALIDARG), vec, item, NullArg)
    ELSE LET r == Traits_GetAt(vec.mVector, index) IN
         IF r.exc # NoExc
         THEN Returned(r.exc, vec, Cell(0), NullArg)
         ELSE Returned(NoExc, vec, Cell(Unwrap(r.value)), NullArg)

\* Mutant: the scan does not stop at the first match, so the last one wins.
IndexOfLoop_NoBreak(vector, value, i, size) ==
    LET hits == {j \in i..(size - 1) : Equals(vector[j + 1], value)} IN
    IF hits = {} THEN [index |-> 0, found |-> FALSE]
    ELSE [index |-> CHOOSE j \in hits : \A k \in hits : k <= j, found |-> TRUE]

\* The scan of IndexOf from position i: [index, found] as left by the loop.
RECURSIVE IndexOfLoop(_, _, _, _)
IndexOfLoop(vector, value, i, size) ==
    IF ~(i < size)
    THEN [index |-> 0, found |-> FALSE]
    ELSE IF Equals(Traits_GetAt(vector, i).value, value)
    THEN [index |-> i, found |-> TRUE]
    ELSE IndexOfLoop(vector, value, i + 1, size)

Vector_IndexOf(vec, value, index, found) ==
    IF index = NullArg
    THEN Returned(ThrowHR(E_INVALIDARG), vec, index, found)
    ELSE IF found = NullArg
    THEN Returned(ThrowHR(E_INVALIDARG), vec, index, found)
    ELSE LET r == IndexOfLoop(vec.mVector, value, 0, Traits_GetSize(vec.mVector)) IN
         Returned(NoExc, vec, Cell(r.index), Cell(r.found))

Vector_SetAt(vec, index, item) ==
    LET r == Traits_SetAt(vec.mVector, index, item) IN
    IF r.exc # NoExc
    THEN Returned(r.exc, vec, NullArg, NullArg)
    ELSE Returned(NoExc, [vec EXCEPT !.mVector = r.vector, !.isChanged = TRUE],
                  NullArg, NullArg)

Vector_InsertAt(vec, index, item, fault) ==
    IF vec.isFixedSize
    THEN Returned(ThrowHR(E_NOTIMPL), vec, NullArg, NullArg)
    ELSE LET r == Traits_InsertAt(vec.mVector, index, item, fault) IN
         IF r.exc # NoExc
         THEN Returned(r.exc, vec, NullArg, NullArg)
         ELSE Returned(NoExc, [vec EXCEPT !.mVector = r.vector, !.isChanged = TRUE],
                       NullArg, NullArg)

\* Mutant: RemoveAt without the isFixedSize check.
Vector_RemoveAt_NoFixedCheck(vec, index) ==
    LET r == Traits_RemoveAt(vec.mVector, index) IN
    IF r.exc # NoExc
    THEN Returned(r.exc, vec, NullArg, NullArg)
    ELSE Returned(NoExc, [vec EXCEPT !.mVector = r.vector, !.isChanged = TRUE],
                  NullArg, NullArg)

Vector_RemoveAt(vec, index) ==
    IF vec.isFixedSize
    THEN Returned(ThrowHR(E_NOTIMPL), vec, NullArg, NullArg)
    ELSE LET r == Traits_RemoveAt(vec.mVector, index) IN
         IF r.exc # NoExc
         THEN Returned(r.exc, vec, NullArg, NullArg)
         ELSE Returned(NoExc, [vec EXCEPT !.mVector = r.vector, !.isChanged = TRUE],
                       NullArg, NullArg)

Vector_Append(vec, item, fault) ==
    IF vec.isFixedSize
    THEN Returned(ThrowHR(E_NOTIMPL), vec, NullArg, NullArg)
    ELSE LET r == Traits_Append(vec.mVector, item, fault) IN
         IF r.exc # NoExc
         THEN Returned(r.exc, vec, NullArg, NullArg)
         ELSE Returned(NoExc, [vec EXCEPT !.mVector = r.vector, !.isChanged = TRUE],
                       NullArg, NullArg)

\* Mutant: RemoveAtEnd compares the index as a signed integer, so the
\* wrapped index of an empty Vector passes the bounds check.
Vector_RemoveAtEnd_SignedCheck(vec) ==
    IF vec.isFixedSize
    THEN Returned(ThrowHR(E_NOTIMPL), vec, NullArg, NullArg)
    ELSE LET index == UDec(Traits_GetSize(vec.mVector)) IN
         IF index >= Len(vec.mVector)
         THEN Returned(ThrowHR(E_BOUNDS), vec, NullArg, NullArg)
         ELSE Returned(NoExc,
                       [vec EXCEPT !.mVector = SubSeq(vec.mVector, 1, index),
                                   !.isChanged = TRUE],
                       NullArg, NullArg)

Vector_RemoveAtEnd(vec) ==
    IF vec.isFixedSize
    THEN Returned(ThrowHR(E_NOTIMPL), vec, NullArg, NullArg)
    ELSE LET r == Traits_RemoveAt(vec.mVector, UDec(Traits_GetSize(vec.mVector))) IN
         IF r.exc # NoExc
         THEN Returned(r.exc, vec, NullArg, NullArg)
         ELSE Returned(NoExc, [vec EXCEPT !.mVector = r.vector, !.isChanged = TRUE],
                       NullArg, NullArg)

\* Mutant: Clear without the isFixedSize check.
Vector_Clear_NoFixedCheck(vec) ==
    Returned(NoExc, [vec EXCEPT !.mVector = Traits_Clear(vec.mVector),
                                !.isChanged = TRUE],
             NullArg, NullArg)

Vector_Clear(vec) ==
    IF vec.isFixedSize
    THEN Returned(ThrowHR(E_NOTIMPL), vec, NullArg, NullArg)
    ELSE Returned(NoExc, [vec EXCEPT !.mVector = Traits_Clear(vec.mVector),
                                     !.isChanged = TRUE],
                  NullArg, NullArg)

\* ReplaceAll's first loop: SetAt(i, value[i]) for i = i..count-1.
RECURSIVE ReplaceAllSetLoop(_, _, _, _)
ReplaceAllSetLoop(vector, value, i, count) ==
    IF ~(i < count)
    THEN [exc |-> NoExc, vector |-> vector]
    ELSE LET r == Traits_SetAt(vector, i, value[i + 1]) IN
         IF r.exc # NoExc THEN r
         ELSE ReplaceAllSetLoop(r.vector, value, i + 1, count)

\* Mutant: the second loop leaves out the last value.
ReplaceAllAppendLoop_Short(vector, value, i, count, fault, failAt) ==
    IF count = 0 THEN [exc |-> NoExc, vector |-> vector]
    ELSE [exc |-> NoExc, vector |-> SubSeq(value, 1, count - 1)]

\* ReplaceAll's second loop: Append(value[i]) for i = i..count-1; the
\* environment's fault, if any, hits the Append of index failAt.
RECURSIVE ReplaceAllAppendLoop(_, _, _, _, _, _)
ReplaceAllAppendLoop(vector, value, i, count, fault, failAt) ==
    IF ~(i < count)
    THEN [exc |-> NoExc, vector |-> vector]
    ELSE LET r == Traits_Append(vector, value[i + 1],
                                IF i = failAt THEN fault ELSE NoFault) IN
         IF r.exc # NoExc THEN r
         ELSE ReplaceAllAppendLoop(r.vector, value, i + 1, count, fault, failAt)

\* Mutant: ReplaceAll clears the buffer before the isFixedSize check.
Vector_ReplaceAll_ClearFirst(vec, count, value, fault, failAt) ==
    IF value = NullArg
    THEN Returned(ThrowHR(E_INVALIDARG), vec, NullArg, NullArg)
    ELSE IF count = Traits_GetSize(vec.mVector)
    THEN LET r == ReplaceAllSetLoop(vec.mVector, Deref(value), 0, count) IN
         IF r.exc # NoExc
         THEN Returned(r.exc, [vec EXCEPT !.mVector = r.vector], NullArg, NullArg)
         ELSE Returned(NoExc, [vec EXCEPT !.mVector = r.vector, !.isChanged = TRUE],
                       NullArg, NullArg)
    ELSE IF vec.isFixedSize
    THEN Returned(ThrowHR(E_NOTIMPL),
                  [vec EXCEPT !.mVector = Traits_Clear(vec.mVector)], NullArg, NullArg)
    ELSE LET r == ReplaceAllAppendLoop(Traits_Clear(vec.mVector), Deref(value), 0, count,
                                       fault, failAt) IN
         IF r.exc # NoExc
         THEN Returned(r.exc, [vec EXCEPT !.mVector = r.vector], NullArg, NullArg)
         ELSE Returned(NoExc, [vec EXCEPT !.mVector = r.vector, !.isChanged = TRUE],
                       NullArg, NullArg)

Vector_ReplaceAll(vec, count, value, fault, failAt) ==
    IF value = NullArg
    THEN Returned(ThrowHR(E_INVALIDARG), vec, NullArg, NullArg)
    ELSE IF count = Traits_GetSize(vec.mVector)
    THEN LET r == ReplaceAllSetLoop(vec.mVector, Deref(value), 0, count) IN
         IF r.exc # NoExc
         THEN Returned(r.exc, [vec EXCEPT !.mVector = r.vector], NullArg, NullArg)
         ELSE Returned(NoExc, [vec EXCEPT !.mVector = r.vector, !.isChanged = TRUE],
                       NullArg, NullArg)
    ELSE IF vec.isFixedSize
    THEN Returned(ThrowHR(E_NOTIMPL), vec, NullArg, NullArg)
    ELSE LET r == ReplaceAllAppendLoop(Traits_Clear(vec.mVector), Deref(value), 0, count,
                                       fault, failAt) IN
         IF r.exc # NoExc
         THEN Returned(r.exc, [vec EXCEPT !.mVector = r.vector], NullArg, NullArg)
         ELSE Returned(NoExc, [vec EXCEPT !.mVector = r.vector, !.isChanged = TRUE],
                       NullArg, NullArg)

\* GetView and First: `made` is the handle Make<> returns, nullptr when the
\* allocation fails.
Vector_GetView(vec, view, made) ==
    IF view = NullArg
    THEN Returned(ThrowHR(E_INVALIDARG), vec, view, NullArg)
    ELSE IF made = nullptr
    THEN Returned(ThrowBadAlloc, vec, Cell(nullptr), NullArg)
    ELSE Returned(NoExc, vec, Cell(made), NullArg)

Vector_First(vec, first, made) ==
    IF first = NullArg
    THEN Returned(ThrowHR(E_INVALIDARG), vec, first, NullArg)
    ELSE IF made = nullptr
    THEN Returned(ThrowBadAlloc, vec, Cell(nullptr), NullArg)
    ELSE Returned(NoExc, vec, Cell(made), NullArg)

\* ------------------------------------------------------------------ ComPtr
\* The Vector is a reference-counted RuntimeClass: the count starts at 1 in
\* the owner's hands and the object is destroyed when it reaches 0.  A
\* ComPtr<TVector> member initialised from a raw pointer adds a reference
\* and releases it when the object that holds it is destroyed.
\* Mutant: the member is a raw pointer, no reference is added.
ComPtr_ctor_Raw(count) == count

ComPtr_ctor(count) == count + 1
ComPtr_dtor(count) == count - 1

\* -------------------------------------------------------------- VectorView
\* A view holds only the reference mVector; every method forwards to the
\* Vector it refers to (vec is that Vector's current state).
VectorView_ctor(vector) == [mVector |-> vector]
VectorView_get_Size(vec, size) == Vector_get_Size(vec, size)
\* Mutant: the view forwards the index after the one asked for.
VectorView_GetAt_NextIndex(vec, index, item) == Vector_GetAt(vec, index + 1, item)
VectorView_GetAt(vec, index, item) == Vector_GetAt(vec, index, item)
VectorView_IndexOf(vec, value, index, found) == Vector_IndexOf(vec, value, index, found)
VectorView_First(vec, first, made) == Vector_First(vec, first, made)

\* ---------------------------------------------------------- VectorIterator
\* An iterator is [mVector, mPosition]; methods yield [hr, it, out].
VectorIterator_ctor(vector) == [mVector |-> vector, mPosition |-> 0]

IterReturned(exc, it, out) == [hr |-> ExceptionBoundary(exc), it |-> it, out |-> out]

\* Mutant: get_Current also steps to the next element.
VectorIterator_get_Current_Advances(it, vec, current) ==
    LET r == Vector_GetAt(vec, it.mPosition, current) IN
    [hr |-> r.hr,
     it |-> IF r.hr = S_OK THEN [it EXCEPT !.mPosition = it.mPosition + 1] ELSE it,
     out |-> r.out]

VectorIterator_get_Current(it, vec, current) ==
    LET r == Vector_GetAt(vec, it.mPosition, current) IN
    [hr |-> r.hr, it |-> it, out |-> r.out]

\* Mutant: get_HasCurrent counts the position one past the end as current.
VectorIterator_get_HasCurrent_Inclusive(it, vec, hasCurrent) ==
    IF hasCurrent = NullArg
    THEN IterReturned(ThrowHR(E_INVALIDARG), it, hasCurrent)
    ELSE IterReturned(NoExc, it,
                      Cell(~UGt(it.mPosition, Traits_GetSize(vec.mVector))))

VectorIterator_get_HasCurrent(it, vec, hasCurrent) ==
    IF hasCurrent = NullArg
    THEN IterReturned(ThrowHR(E_INVALIDARG), it, hasCurrent)
    ELSE IterReturned(NoExc, it, Cell(ULt(it.mPosition, Traits_GetSize(vec.mVector))))

\* Mutant: MoveNext at the end goes back to the first element.
VectorIterator_MoveNext_Reset(it, vec, hasCurrent) ==
    IF hasCurrent = NullArg
    THEN IterReturned(ThrowHR(E_INVALIDARG), it, hasCurrent)
    ELSE LET size == Traits_GetSize(vec.mVector) IN
         IF UGe(it.mPosition, size)
         THEN IterReturned(ThrowHR(E_BOUNDS), [it EXCEPT !.mPosition = 0], hasCurrent)
         ELSE IterReturned(NoExc, [it EXCEPT !.mPosition = it.mPosition + 1],
                           Cell(ULt(it.mPosition + 1, size)))

\* Mutant: the bounds check of MoveNext lets position == size through.
VectorIterator_MoveNext_OffByOne(it, vec, hasCurrent) ==
    IF hasCurrent = NullArg
    THEN IterReturned(ThrowHR(E_INVALIDARG), it, hasCurrent)
    ELSE LET size == Traits_GetSize(vec.mVector) IN
         IF UGt(it.mPosition, size)
         THEN IterReturned(ThrowHR(E_BOUNDS), it, hasCurrent)
         ELSE IterReturned(NoExc, [it EXCEPT !.mPosition = it.mPosition + 1],
                           Cell(ULt(it.mPosition + 1, size)))

\* Mutant: MoveNext advances without the bounds check.
VectorIterator_MoveNext_NoCheck(it, vec, hasCurrent) ==
    IF hasCurrent = NullArg
    THEN IterReturned(ThrowHR(E_INVALIDARG), it, hasCurrent)
    ELSE IterReturned(NoExc, [it EXCEPT !.mPosition = it.mPosition + 1],
                      Cell(ULt(it.mPosition + 1, Traits_GetSize(vec.mVector))))

\* Mutant: MoveNext reports whether the position it left has an element.
VectorIterator_MoveNext_OldPosition(it, vec, hasCurrent) ==
    IF hasCurrent = NullArg
    THEN IterReturned(ThrowHR(E_INVALIDARG), it, hasCurrent)
    ELSE LET size == Traits_GetSize(vec.mVector) IN
         IF UGe(it.mPosition, size)
         THEN IterReturned(ThrowHR(E_BOUNDS), it, hasCurrent)
         ELSE IterReturned(NoExc, [it EXCEPT !.mPosition = it.mPosition + 1],
                           Cell(ULt(it.mPosition, size)))

VectorIterator_MoveNext(it, vec, hasCurrent) ==
    IF hasCurrent = NullArg
    THEN IterReturned(ThrowHR(E_INVALIDARG), it, hasCurrent)
    ELSE LET size == Traits_GetSize(vec.mVector) IN
         IF UGe(it.mPosition, size)
         THEN IterReturned(ThrowHR(E_BOUNDS), it, hasCurrent)
         ELSE IterReturned(NoExc, [it EXCEPT !.mPosition = it.mPosition + 1],
                           Cell(ULt(it.mPosition + 1, size)))

\* -------------------------------------------------------------------- state
VARIABLES
    mVector,      \* Vector::mVector, the buffer
    isFixedSize,  \* Vector::isFixedSize
    isChanged,    \* Vector::isChanged
    views,        \* the live VectorView objects, by id
    iters,        \* the live VectorIterator objects, by id
    last,         \* the last call: method, arguments, HRESULT, outputs
    refCount,     \* the Vector's reference count; it is destroyed at 0
    owner,        \* the owner still holds its reference to the Vector
    loop          \* a client's loop over an iterator: its place and its record

vars == <<mVector, isFixedSize, isChanged, views, iters, last, refCount, owner,
          loop>>

\* The one Vector object, as the methods see it, and the reference to it
\* that views and iterators hold.
This == [mVector |-> mVector, isFixedSize |-> isFixedSize, isChanged |-> isChanged]
ThisRef == "vector"

\* ------------------------------------------------------------------- inputs
\* All buffers of at most n elements.
SeqsUpTo(n) == UNION {[1..k -> Values] : k \in 0..n}
\* Indices in range, at the end, and the largest unsigned (past the end of
\* every buffer).
Indices == (0..MaxLen) \cup {UINT_MAX}
\* Output arguments: null, or a cell with leftover (nonzero) contents.
OutValue == {NullArg, Cell(MaxVal)}
OutBool == {NullArg, Cell(TRUE)}
OutHandle == {NullArg, Cell(StaleHandle)}
\* The arguments of GetAt: every index with a valid output cell, and the
\* null output pointer.
GetAtArgs ==
    {<<index, Cell(MaxVal)>> : index \in Indices} \cup {<<0, NullArg>>}
\* The arguments of IndexOf: every value with valid output cells, and
\* either output pointer null.
IndexOfArgs ==
    {<<value, Cell(MaxVal), Cell(TRUE)>> : value \in Values}
    \cup {<<0, NullArg, Cell(TRUE)>>, <<0, Cell(MaxVal), NullArg>>}
\* The arguments of InsertAt: every index and item, and at every index an
\* allocation failure.
InsertAtArgs ==
    {<<index, item, NoFault>> : index \in Indices, item \in Values}
    \cup {<<index, 0, "bad_alloc">> : index \in Indices}
\* The arguments of ReplaceAll, <<count, value, fault, failAt>>: every
\* array of count values; the null array; and every non-empty array with
\* an allocation failure in the Append of its first or of its last element.
ReplaceAllArgs ==
    {<<Len(a), Cell(a), NoFault, 0>> : a \in SeqsUpTo(MaxLen)}
    \cup {<<count, NullArg, NoFault, 0>> : count \in 0..MaxLen}
    \cup UNION {{<<Len(a), Cell(a), "bad_alloc", failAt>> :
                   failAt \in {0, Len(a) - 1}} :
                 a \in SeqsUpTo(MaxLen) \ {<< >>}}

\* The smallest id not in use, 0 when all are.
FreeId(live, max) ==
    IF \E i \in 1..max : i \notin live
    THEN CHOOSE i \in 1..max : i \notin live /\ \A j \in 1..(i - 1) : j \in live
    ELSE 0
\* What Make<> can return for a new object of the class: the null pointer
\* (allocation failure) or the new object.
MakeResults(class, live, max) ==
    {nullptr} \cup (IF FreeId(live, max) = 0 THEN {}
                    ELSE {Handle(class, FreeId(live, max))})

NoCall ==
    [op |-> "none", hr |-> S_OK, index |-> 0, item |-> 0, count |-> 0,
     value |-> NullArg, fault |-> NoFault, it |-> 0, view |-> 0,
     out |-> NullArg, out2 |-> NullArg]

\* A client about to run the loop
\*     first(); while (hasCurrent()) { current(); moveNext(); } moveNext();
\* pc is its next statement, it the iterator first() gave it, reads and
\* moves the results of its current() and moveNext() calls so far.
NoLoop == [pc |-> "first", it |-> 0, reads |-> << >>, moves |-> << >>]

\* No call is recorded: the caller has taken the results of the last one.
Idle == last.op = "none"

\* The Vector after a call, kept within the model's longest buffer.
SetThis(vec) ==
    /\ Len(vec.mVector) <= MaxLen
    /\ mVector' = vec.mVector
    /\ isFixedSize' = vec.isFixedSize
    /\ isChanged' = vec.isChanged

\* --------------------------------------------------------------------- Init
\* The owner constructs the Vector, fixed or resizable, with any contents.
Init ==
    /\ \E fixed \in BOOLEAN, args \in SeqsUpTo(MaxLen) :
           LET vec == Vector_ctor(fixed, args) IN
           /\ mVector = vec.mVector
           /\ isFixedSize = vec.isFixedSize
           /\ isChanged = vec.isChanged
    /\ views = << >>
    /\ iters = << >>
    /\ last = NoCall
    /\ refCount = 1
    /\ owner = TRUE
    /\ loop = NoLoop

\* ------------------------------------------------------------------ actions
SetChanged ==
    \E changed \in BOOLEAN :
        /\ Idle
        /\ owner
        /\ SetThis(Vector_SetChanged(This, changed))
        /\ last' = [NoCall EXCEPT !.op = "SetChanged"]
        /\ UNCHANGED <<loop, views, iters, refCount, owner>>

get_Size ==
    \E size \in OutValue :
        LET r == Vector_get_Size(This, size) IN
        /\ Idle
        /\ owner
        /\ SetThis(r.vec)
        /\ last' = [NoCall EXCEPT !.op = "get_Size", !.hr = r.hr, !.out = r.out]
        /\ UNCHANGED <<loop, views, iters, refCount, owner>>

GetAt ==
    \E args \in GetAtArgs :
        LET index == args[1]
            item == args[2]
            r == Vector_GetAt(This, index, item) IN
        /\ Idle
        /\ owner
        /\ SetThis(r.vec)
        /\ last' = [NoCall EXCEPT !.op = "GetAt", !.hr = r.hr, !.index = index,
                                  !.out = r.out]
        /\ UNCHANGED <<loop, views, iters, refCount, owner>>

IndexOf ==
    \E args \in IndexOfArgs :
        LET value == args[1]
            index == args[2]
            found == args[3]
            r == Vector_IndexOf(This, value, index, found) IN
        /\ Idle
        /\ owner
        /\ SetThis(r.vec)
        /\ last' = [NoCall EXCEPT !.op = "IndexOf", !.hr = r.hr, !.item = value,
                                  !.out = r.out, !.out2 = r.out2]
        /\ UNCHANGED <<loop, views, iters, refCount, owner>>

SetAt ==
    \E index \in Indices, item \in Values :
        LET r == Vector_SetAt(This, index, item) IN
        /\ Idle
        /\ owner
        /\ SetThis(r.vec)
        /\ last' = [NoCall EXCEPT !.op = "SetAt", !.hr = r.hr, !.index = index,
                                  !.item = item]
        /\ UNCHANGED <<loop, views, iters, refCount, owner>>

InsertAt ==
    \E args \in InsertAtArgs :
        LET index == args[1]
            item == args[2]
            fault == args[3]
            r == Vector_InsertAt(This, index, item, fault) IN
        /\ Idle
        /\ owner
        /\ SetThis(r.vec)
        /\ last' = [NoCall EXCEPT !.op = "InsertAt", !.hr = r.hr, !.index = index,
                                  !.item = item, !.fault = fault]
        /\ UNCHANGED <<loop, views, iters, refCount, owner>>

RemoveAt ==
    \E index \in Indices :
        LET r == Vector_RemoveAt(This, index) IN
        /\ Idle
        /\ owner
        /\ SetThis(r.vec)
        /\ last' = [NoCall EXCEPT !.op = "RemoveAt", !.hr = r.hr, !.index = index]
        /\ UNCHANGED <<loop, views, iters, refCount, owner>>

Append_ ==
    \E item \in Values, fault \in Faults :
        LET r == Vector_Append(This, item, fault) IN
        /\ Idle
        /\ owner
        /\ SetThis(r.vec)
        /\ last' = [NoCall EXCEPT !.op = "Append", !.hr = r.hr, !.item = item,
                                  !.fault = fault]
        /\ UNCHANGED <<loop, views, iters, refCount, owner>>

RemoveAtEnd ==
    LET r == Vector_RemoveAtEnd(This) IN
    /\ Idle
    /\ owner
    /\ SetThis(r.vec)
    /\ last' = [NoCall EXCEPT !.op = "RemoveAtEnd", !.hr = r.hr]
    /\ UNCHANGED <<loop, views, iters, refCount, owner>>

Clear ==
    LET r == Vector_Clear(This) IN
    /\ Idle
    /\ owner
    /\ SetThis(r.vec)
    /\ last' = [NoCall EXCEPT !.op = "Clear", !.hr = r.hr]
    /\ UNCHANGED <<loop, views, iters, refCount, owner>>

ReplaceAll ==
    \E args \in ReplaceAllArgs :
        LET count == args[1]
            value == args[2]
            fault == args[3]
            failAt == args[4]
            r == Vector_ReplaceAll(This, count, value, fault, failAt) IN
        /\ Idle
        /\ owner
        /\ SetThis(r.vec)
        /\ last' = [NoCall EXCEPT !.op = "ReplaceAll", !.hr = r.hr,
                                  !.count = count, !.value = value,
                                  !.fault = fault, !.index = failAt]
        /\ UNCHANGED <<loop, views, iters, refCount, owner>>

GetView ==
    \E view \in OutHandle, made \in MakeResults("VectorView", DOMAIN views, MaxViews) :
        LET r == Vector_GetView(This, view, made) IN
        /\ Idle
        /\ owner
        /\ SetThis(r.vec)
        /\ views' = IF r.hr = S_OK
                    THEN views @@ (made[2] :> VectorView_ctor(ThisRef))
                    ELSE views
        /\ last' = [NoCall EXCEPT !.op = "GetView", !.hr = r.hr, !.out = r.out]
        /\ refCount' = IF r.hr = S_OK THEN ComPtr_ctor(refCount) ELSE refCount
        /\ UNCHANGED <<loop, iters, owner>>

First ==
    \E first \in OutHandle,
       made \in MakeResults("VectorIterator", DOMAIN iters, MaxIters) :
        LET r == Vector_First(This, first, made) IN
        /\ Idle
        /\ owner
        /\ SetThis(r.vec)
        /\ iters' = IF r.hr = S_OK
                    THEN iters @@ (made[2] :> VectorIterator_ctor(ThisRef))
                    ELSE iters
        /\ last' = [NoCall EXCEPT !.op = "First", !.hr = r.hr, !.out = r.out]
        /\ refCount' = IF r.hr = S_OK THEN ComPtr_ctor(refCount) ELSE refCount
        /\ UNCHANGED <<loop, views, owner>>

\* The Vector a view or an iterator refers to (there is one Vector).
Target(ref) == This

View_get_Size ==
    \E v \in DOMAIN views, size \in OutValue :
        LET r == VectorView_get_Size(Target(views[v].mVector), size) IN
        /\ Idle
        /\ SetThis(r.vec)
        /\ last' = [NoCall EXCEPT !.op = "View.get_Size", !.hr = r.hr, !.view = v,
                                  !.out = r.out]
        /\ UNCHANGED <<loop, views, iters, refCount, owner>>

View_GetAt ==
    \E v \in DOMAIN views, args \in GetAtArgs :
        LET index == args[1]
            item == args[2]
            r == VectorView_GetAt(Target(views[v].mVector), index, item) IN
        /\ Idle
        /\ SetThis(r.vec)
        /\ last' = [NoCall EXCEPT !.op = "View.GetAt", !.hr = r.hr, !.view = v,
                                  !.index = index, !.out = r.out]
        /\ UNCHANGED <<loop, views, iters, refCount, owner>>

View_IndexOf ==
    \E v \in DOMAIN views, args \in IndexOfArgs :
        LET value == args[1]
            index == args[2]
            found == args[3]
            r == VectorView_IndexOf(Target(views[v].mVector), value, index, found) IN
        /\ Idle
        /\ SetThis(r.vec)
        /\ last' = [NoCall EXCEPT !.op = "View.IndexOf", !.hr = r.hr, !.view = v,
                                  !.item = value, !.out = r.out, !.out2 = r.out2]
        /\ UNCHANGED <<loop, views, iters, refCount, owner>>

View_First ==
    \E v \in DOMAIN views, first \in OutHandle,
       made \in MakeResults("VectorIterator", DOMAIN iters, MaxIters) :
        LET r == VectorView_First(Target(views[v].mVector), first, made) IN
        /\ Idle
        /\ SetThis(r.vec)
        /\ iters' = IF r.hr = S_OK
                    THEN iters @@ (made[2] :> VectorIterator_ctor(views[v].mVector))
                    ELSE iters
        /\ last' = [NoCall EXCEPT !.op = "View.First", !.hr = r.hr, !.view = v,
                                  !.out = r.out]
        /\ refCount' = IF r.hr = S_OK THEN ComPtr_ctor(refCount) ELSE refCount
        /\ UNCHANGED <<loop, views, owner>>

get_Current ==
    \E i \in DOMAIN iters, current \in OutValue :
        LET r == VectorIterator_get_Current(iters[i], Target(iters[i].mVector), current) IN
        /\ Idle
        /\ iters' = [iters EXCEPT ![i] = r.it]
        /\ last' = [NoCall EXCEPT !.op = "get_Current", !.hr = r.hr, !.it = i,
                                  !.out = r.out]
        /\ UNCHANGED <<loop, mVector, isFixedSize, isChanged, views, refCount, owner>>

get_HasCurrent ==
    \E i \in DOMAIN iters, hasCurrent \in OutBool :
        LET r == VectorIterator_get_HasCurrent(iters[i], Target(iters[i].mVector),
                                               hasCurrent) IN
        /\ Idle
        /\ iters' = [iters EXCEPT ![i] = r.it]
        /\ last' = [NoCall EXCEPT !.op = "get_HasCurrent", !.hr = r.hr, !.it = i,
                                  !.out = r.out]
        /\ UNCHANGED <<loop, mVector, isFixedSize, isChanged, views, refCount, owner>>

MoveNext ==
    \E i \in DOMAIN iters, hasCurrent \in OutBool :
        LET r == VectorIterator_MoveNext(iters[i], Target(iters[i].mVector),
                                         hasCurrent) IN
        /\ Idle
        /\ iters' = [iters EXCEPT ![i] = r.it]
        /\ last' = [NoCall EXCEPT !.op = "MoveNext", !.hr = r.hr, !.it = i,
                                  !.out = r.out]
        /\ UNCHANGED <<loop, mVector, isFixedSize, isChanged, views, refCount, owner>>

\* The owner gives up its reference to the Vector.
Release ==
    /\ Idle
    /\ owner
    /\ owner' = FALSE
    /\ refCount' = ComPtr_dtor(refCount)
    /\ last' = [NoCall EXCEPT !.op = "Release"]
    /\ UNCHANGED <<loop, mVector, isFixedSize, isChanged, views, iters>>

\* The last reference to a view is released: the view is destroyed and with
\* it its member mVector, which releases the Vector.
View_Release ==
    \E v \in DOMAIN views :
        /\ Idle
        /\ views' = [w \in DOMAIN views \ {v} |-> views[w]]
        /\ refCount' = ComPtr_dtor(refCount)
        /\ last' = [NoCall EXCEPT !.op = "View.Release", !.view = v]
        /\ UNCHANGED <<loop, mVector, isFixedSize, isChanged, iters, owner>>

\* The last reference to an iterator is released.
Iterator_Release ==
    \E i \in DOMAIN iters :
        /\ Idle
        /\ iters' = [j \in DOMAIN iters \ {i} |-> iters[j]]
        /\ refCount' = ComPtr_dtor(refCount)
        /\ last' = [NoCall EXCEPT !.op = "Iterator.Release", !.it = i]
        /\ UNCHANGED <<loop, mVector, isFixedSize, isChanged, views, owner>>

\* The caller takes the HRESULT and the outputs of the call; the record of
\* the call is dropped before the next call is made.
Return ==
    /\ ~Idle
    /\ last' = NoCall
    /\ UNCHANGED <<loop, mVector, isFixedSize, isChanged, views, iters, refCount, owner>>

\* The loop's call of Vector::First.
Loop_First ==
    \E made \in MakeResults("VectorIterator", DOMAIN iters, MaxIters) :
        LET r == Vector_First(This, Cell(StaleHandle), made) IN
        /\ loop.pc = "first"
        /\ owner
        /\ SetThis(r.vec)
        /\ iters' = IF r.hr = S_OK
                    THEN iters @@ (made[2] :> VectorIterator_ctor(ThisRef))
                    ELSE iters
        /\ refCount' = IF r.hr = S_OK THEN ComPtr_ctor(refCount) ELSE refCount
        /\ loop' = IF r.hr = S_OK
                   THEN [loop EXCEPT !.pc = "test", !.it = Deref(r.out)[2]]
                   ELSE [loop EXCEPT !.pc = "nofirst"]
        /\ UNCHANGED <<views, last, owner>>

\* The loop's test: VectorIterator::get_HasCurrent.
Loop_HasCurrent ==
    LET i == loop.it
        r == VectorIterator_get_HasCurrent(iters[i], Target(iters[i].mVector),
                                           Cell(TRUE)) IN
    /\ loop.pc = "test"
    /\ iters' = [iters EXCEPT ![i] = r.it]
    /\ loop' = [loop EXCEPT !.pc = IF r.hr = S_OK /\ Deref(r.out)
                                   THEN "read" ELSE "after"]
    /\ UNCHANGED <<mVector, isFixedSize, isChanged, views, last, refCount, owner>>

\* The loop's read: VectorIterator::get_Current.
Loop_Current ==
    LET i == loop.it
        r == VectorIterator_get_Current(iters[i], Target(iters[i].mVector),
                                        Cell(MaxVal)) IN
    /\ loop.pc = "read"
    /\ Len(loop.reads) <= MaxLen
    /\ iters' = [iters EXCEPT ![i] = r.it]
    /\ loop' = [loop EXCEPT
                   !.pc = "move",
                   !.reads = Append(@, [position |-> iters[i].mPosition,
                                        hr |-> r.hr, out |-> r.out])]
    /\ UNCHANGED <<mVector, isFixedSize, isChanged, views, last, refCount, owner>>

\* The loop's step, and the one call after the loop:
\* VectorIterator::MoveNext.
Loop_MoveNext ==
    LET i == loop.it
        r == VectorIterator_MoveNext(iters[i], Target(iters[i].mVector),
                                     Cell(TRUE)) IN
    /\ loop.pc \in {"move", "after"}
    /\ Len(loop.moves) <= MaxLen + 1
    /\ iters' = [iters EXCEPT ![i] = r.it]
    /\ loop' = [loop EXCEPT
                   !.pc = IF loop.pc = "move" THEN "test" ELSE "done",
                   !.moves = Append(@, [hr |-> r.hr, out |-> r.out])]
    /\ UNCHANGED <<mVector, isFixedSize, isChanged, views, last, refCount, owner>>

Next ==
    \/ SetChanged
    \/ get_Size
    \/ GetAt
    \/ IndexOf
    \/ SetAt
    \/ InsertAt
    \/ RemoveAt
    \/ Append_
    \/ RemoveAtEnd
    \/ Clear
    \/ ReplaceAll
    \/ GetView
    \/ First
    \/ View_get_Size
    \/ View_GetAt
    \/ View_IndexOf
    \/ View_First
    \/ get_Current
    \/ get_HasCurrent
    \/ MoveNext
    \/ Release
    \/ View_Release
    \/ Iterator_Release
    \/ Return

Spec == Init /\ [][Next]_vars

\* The calls that only read: the Vector is never mutated.
NextReadOnly ==
    \/ get_Size
    \/ GetAt
    \/ IndexOf
    \/ GetView
    \/ First
    \/ View_get_Size
    \/ View_GetAt
    \/ View_IndexOf
    \/ View_First
    \/ get_Current
    \/ get_HasCurrent
    \/ MoveNext
    \/ Return

SpecReadOnly == Init /\ [][NextReadOnly]_vars

\* Clients that only iterate: they take iterators from the Vector and use
\* them, and nobody mutates the Vector.
NextIteration ==
    \/ First
    \/ get_Current
    \/ get_HasCurrent
    \/ MoveNext
    \/ Return

SpecIteration == Init /\ [][NextIteration]_vars

\* A client that runs the loop on a Vector nobody else touches. The loop is
\* sequential code: it takes its next statement as long as it has one.
NextLoop ==
    \/ Loop_First
    \/ Loop_HasCurrent
    \/ Loop_Current
    \/ Loop_MoveNext

SpecLoop == Init /\ [][NextLoop]_vars /\ WF_vars(NextLoop)

\* A client that holds the Vector alone. Views and iterators have no method
\* that writes the Vector's fields, and no Vector method reads theirs.
NextVector ==
    \/ SetChanged
    \/ get_Size
    \/ GetAt
    \/ IndexOf
    \/ SetAt
    \/ InsertAt
    \/ RemoveAt
    \/ Append_
    \/ RemoveAtEnd
    \/ Clear
    \/ ReplaceAll
    \/ Return

SpecVector == Init /\ [][NextVector]_vars

\* A client that holds the Vector and views of it, and no iterator.
NextViews ==
    \/ SetChanged
    \/ get_Size
    \/ GetAt
    \/ IndexOf
    \/ SetAt
    \/ InsertAt
    \/ RemoveAt
    \/ Append_
    \/ RemoveAtEnd
    \/ Clear
    \/ ReplaceAll
    \/ GetView
    \/ View_get_Size
    \/ View_GetAt
    \/ View_IndexOf
    \/ Return

SpecViews == Init /\ [][NextViews]_vars

\* ------------------------------------------------------------- observations
\* What a caller with valid output cells observes.
ObsSize(vec) == Vector_get_Size(vec, Cell(MaxVal))
ObsAt(vec, index) == Vector_GetAt(vec, index, Cell(MaxVal))
Succeeds(value) == [hr |-> S_OK, out |-> Cell(value)]
Observed(r) == [hr |-> r.hr, out |-> r.out]
\* The calls that change the size of a resizable Vector.
ResizingOps == {"InsertAt", "RemoveAt", "Append", "RemoveAtEnd", "Clear"}

\* ------------------------------------------------------------------- claims

\* C1: on a fixed-size Vector, InsertAt, RemoveAt, Append, RemoveAtEnd and
\* Clear return E_NOTIMPL whatever the index and the value (an index out of
\* range and an empty Vector included) and leave the buffer and isChanged as
\* they were, while SetAt with index < size and ReplaceAll of size values
\* (a non-null array) return S_OK.
C1_FixedSizeRejectsResizing ==
    [][isFixedSize =>
        /\ last'.op \in ResizingOps =>
              /\ last'.hr = E_NOTIMPL
              /\ mVector' = mVector
              /\ isChanged' = isChanged
        /\ (last'.op = "SetAt" /\ ULt(last'.index, Len(mVector))) =>
              last'.hr = S_OK
        /\ (last'.op = "ReplaceAll" /\ last'.value # NullArg
                /\ last'.count = Len(mVector)) =>
              last'.hr = S_OK]_vars

\* C1 witness: RemoveAt with the largest index on an empty fixed-size Vector
\* was rejected with E_NOTIMPL.
C1_Witness ==
    /\ isFixedSize
    /\ Len(mVector) = 0
    /\ last.op = "RemoveAt"
    /\ last.index = UINT_MAX
    /\ last.hr = E_NOTIMPL

\* C2: the size get_Size reports for a fixed-size Vector is the same before
\* and after every call, successful or not, and the Vector stays fixed-size.
C2_FixedSizeNeverResizes ==
    [][isFixedSize =>
        /\ isFixedSize'
        /\ Observed(ObsSize(This')) = Observed(ObsSize(This))
        /\ ObsSize(This).hr = S_OK]_vars

\* C2 witness: a fixed-size Vector of three elements whose contents a
\* ReplaceAll has replaced.
C2_Witness ==
    /\ isFixedSize
    /\ last.op = "ReplaceAll"
    /\ last.hr = S_OK
    /\ isChanged
    /\ ObsSize(This).out = Cell(MaxLen)

\* C3 as stated: with index >= size, GetAt (valid output cell), SetAt and
\* RemoveAt return E_BOUNDS, and InsertAt returns E_BOUNDS only if
\* index > size.
C3_Original ==
    [][/\ (\/ last'.op = "GetAt" /\ last'.out # NullArg
           \/ last'.op = "SetAt"
           \/ last'.op = "RemoveAt")
          /\ UGe(last'.index, Len(mVector))
          => last'.hr = E_BOUNDS
       /\ (last'.op = "InsertAt" /\ last'.hr = E_BOUNDS)
          => UGt(last'.index, Len(mVector))]_vars

\* C3 as amended: with index >= size, GetAt (valid output cell) and SetAt
\* return E_BOUNDS; RemoveAt returns E_BOUNDS on a resizable Vector and
\* E_NOTIMPL on a fixed-size one; InsertAt returns E_BOUNDS only if
\* index > size.
C3_OutOfBounds ==
    [][/\ (last'.op = "GetAt" /\ last'.out # NullArg
              /\ UGe(last'.index, Len(mVector)))
          => last'.hr = E_BOUNDS
       /\ (last'.op = "SetAt" /\ UGe(last'.index, Len(mVector)))
          => last'.hr = E_BOUNDS
       /\ (last'.op = "RemoveAt" /\ UGe(last'.index, Len(mVector)))
          => last'.hr = (IF isFixedSize THEN E_NOTIMPL ELSE E_BOUNDS)
       /\ (last'.op = "InsertAt" /\ last'.hr = E_BOUNDS)
          => UGt(last'.index, Len(mVector))]_vars

\* C3 witness: RemoveAt(size) on a non-empty resizable Vector returned
\* E_BOUNDS.
C3_Witness ==
    /\ ~isFixedSize
    /\ Len(mVector) > 0
    /\ last.op = "RemoveAt"
    /\ last.index = Len(mVector)
    /\ last.hr = E_BOUNDS

\* What a caller observes through iterator i with valid output cells.
HasCurrentOf(i) ==
    Observed(VectorIterator_get_HasCurrent(iters[i], Target(iters[i].mVector),
                                           Cell(TRUE)))
CurrentOf(i) ==
    Observed(VectorIterator_get_Current(iters[i], Target(iters[i].mVector),
                                        Cell(MaxVal)))
\* The position the iterator of the last MoveNext had before that call.
PositionBefore ==
    IF last.hr = S_OK THEN iters[last.it].mPosition - 1
    ELSE iters[last.it].mPosition
\* The last call was MoveNext with a valid output cell.
MovedNext == last.op = "MoveNext" /\ last.out # NullArg

\* C4 as stated, on a Vector of n >= 1 elements that is never mutated: an
\* iterator at position 0 has a current element, element 0; at position
\* n - 1 its current element is element n - 1; and the n-th MoveNext (the
\* one called at position n - 1) returns E_BOUNDS, after which HasCurrent
\* is false.
C4_Original ==
    LET n == Len(mVector) IN
    n >= 1 =>
        /\ \A i \in DOMAIN iters :
              /\ iters[i].mPosition = 0 =>
                    /\ HasCurrentOf(i) = Succeeds(TRUE)
                    /\ CurrentOf(i) = Succeeds(mVector[1])
              /\ iters[i].mPosition = n - 1 => CurrentOf(i) = Succeeds(mVector[n])
        /\ (MovedNext /\ PositionBefore = n - 1) =>
              /\ last.hr = E_BOUNDS
              /\ HasCurrentOf(last.it) = Succeeds(FALSE)

\* C4 as amended, on a Vector of n >= 1 elements that is never mutated: an
\* iterator at position 0 has a current element, element 0; at position
\* n - 1 its current element is element n - 1; the n-th MoveNext (called at
\* position n - 1) returns S_OK with hasCurrent = false, after which
\* HasCurrent is false; the next MoveNext (called at position n) returns
\* E_BOUNDS and HasCurrent stays false.
C4_Iteration ==
    LET n == Len(mVector) IN
    n >= 1 =>
        /\ \A i \in DOMAIN iters :
              /\ iters[i].mPosition = 0 =>
                    /\ HasCurrentOf(i) = Succeeds(TRUE)
                    /\ CurrentOf(i) = Succeeds(mVector[1])
              /\ iters[i].mPosition = n - 1 => CurrentOf(i) = Succeeds(mVector[n])
        /\ (MovedNext /\ PositionBefore = n - 1) =>
              /\ last.hr = S_OK
              /\ last.out = Cell(FALSE)
              /\ HasCurrentOf(last.it) = Succeeds(FALSE)
        /\ (MovedNext /\ PositionBefore = n) =>
              /\ last.hr = E_BOUNDS
              /\ HasCurrentOf(last.it) = Succeeds(FALSE)

\* C4 witness: on a Vector of three elements the third MoveNext succeeded
\* and reported that no element is left.
C4_Witness ==
    /\ Len(mVector) = 3
    /\ MovedNext
    /\ last.hr = S_OK
    /\ last.out = Cell(FALSE)
    /\ iters[last.it].mPosition = 3

\* The cleared value of the output of a call.
ZeroOf(op) ==
    IF op \in {"MoveNext", "get_HasCurrent"} THEN FALSE
    ELSE IF op \in {"GetView", "First", "View.First"} THEN nullptr
    ELSE 0

\* C5: after a call that returned a failure, every output cell the caller
\* passed (a non-null pointer) holds the cleared value: 0, false or the null
\* interface pointer, not what it held before the call.
C5_FailureClearsOutputs ==
    last.hr # S_OK =>
        /\ last.out # NullArg => last.out = Cell(ZeroOf(last.op))
        /\ last.out2 # NullArg => last.out2 = Cell(FALSE)

\* What a caller observes through view v.
ViewSize(v) ==
    Observed(VectorView_get_Size(Target(views[v].mVector), Cell(MaxVal)))
\* Every call on every view yields the HRESULT and the outputs of the same
\* call on the Vector.
ViewsForward ==
    \A v \in DOMAIN views :
        /\ \A size \in OutValue :
              Observed(VectorView_get_Size(Target(views[v].mVector), size))
                  = Observed(Vector_get_Size(This, size))
        /\ \A args \in GetAtArgs :
              Observed(VectorView_GetAt(Target(views[v].mVector), args[1], args[2]))
                  = Observed(Vector_GetAt(This, args[1], args[2]))
        /\ \A args \in IndexOfArgs :
              LET rv == VectorView_IndexOf(Target(views[v].mVector),
                                           args[1], args[2], args[3])
                  r == Vector_IndexOf(This, args[1], args[2], args[3]) IN
              /\ Observed(rv) = Observed(r)
              /\ rv.out2 = r.out2

\* C6: after every call, get_Size, GetAt and IndexOf on every view return
\* what the same call on the Vector returns, and a successful Append makes
\* every existing view report a size larger by one.
C6_ViewIsLive ==
    /\ []ViewsForward
    /\ [][(last'.op = "Append" /\ last'.hr = S_OK) =>
              \A v \in DOMAIN views :
                  /\ ViewSize(v).hr = S_OK
                  /\ ViewSize(v)' = Succeeds(Deref(ViewSize(v).out) + 1)]_vars

\* C6 witness: an Append succeeded while a view exists.
C6_Witness ==
    /\ DOMAIN views # {}
    /\ last.op = "Append"
    /\ last.hr = S_OK
    /\ ViewSize(1) = Succeeds(Len(mVector))

\* Element k of the array `values` is what GetAt(k) returns from vec.
HoldsValues(vec, values, n) ==
    \A k \in 0..(n - 1) : Observed(ObsAt(vec, k)) = Succeeds(values[k + 1])

\* C7: ReplaceAll(n, values) with a non-null array: with n = size it
\* returns S_OK on fixed-size and resizable Vectors, the size stays and
\* GetAt(k) then returns values[k] for k < n; with n # size on a resizable
\* Vector, when no Append runs out of memory, it returns S_OK, get_Size
\* then returns n and GetAt(k) returns values[k] for k < n; with n # size on
\* a fixed-size Vector it returns E_NOTIMPL and every element stays.
C7_ReplaceAll ==
    [][(last'.op = "ReplaceAll" /\ last'.value # NullArg) =>
        LET n == last'.count
            values == Deref(last'.value) IN
        IF n = Len(mVector)
        THEN /\ last'.hr = S_OK
             /\ Observed(ObsSize(This')) = Observed(ObsSize(This))
             /\ HoldsValues(This', values, n)
        ELSE IF isFixedSize
        THEN /\ last'.hr = E_NOTIMPL
             /\ mVector' = mVector
        ELSE last'.fault = NoFault =>
                /\ last'.hr = S_OK
                /\ Observed(ObsSize(This')) = Succeeds(n)
                /\ HoldsValues(This', values, n)]_vars

\* C7 witness: a ReplaceAll with three values succeeded on a resizable
\* Vector that held fewer.
C7_Witness ==
    /\ ~isFixedSize
    /\ last.op = "ReplaceAll"
    /\ last.hr = S_OK
    /\ last.count = MaxLen
    /\ mVector = Deref(last.value)

\* C8: on every Vector, fixed-size or not, SetAt(i, v) with i < size
\* returns S_OK, GetAt(i) then returns v, and the size and every element at
\* another index are as before.
C8_SetAtRoundTrip ==
    [][(last'.op = "SetAt" /\ ULt(last'.index, Len(mVector))) =>
        /\ last'.hr = S_OK
        /\ Observed(ObsAt(This', last'.index)) = Succeeds(last'.item)
        /\ Observed(ObsSize(This')) = Observed(ObsSize(This))
        /\ \A j \in 0..(Len(mVector) - 1) :
              j # last'.index =>
                  Observed(ObsAt(This', j)) = Observed(ObsAt(This, j))]_vars

\* C8 witness: SetAt changed the last of three elements of a fixed-size
\* Vector to a value the first does not have.
C8_Witness ==
    /\ isFixedSize
    /\ Len(mVector) = 3
    /\ last.op = "SetAt"
    /\ last.hr = S_OK
    /\ last.index = 2
    /\ mVector[1] # last.item

\* C9: on a resizable Vector of size s, Append(v) without an allocation
\* failure returns S_OK, get_Size then returns s + 1, GetAt(s) returns v
\* and the elements at 0..s-1 are as before.
C9_Append ==
    [][(last'.op = "Append" /\ ~isFixedSize /\ last'.fault = NoFault) =>
        LET s == Len(mVector) IN
        /\ last'.hr = S_OK
        /\ Observed(ObsSize(This')) = Succeeds(s + 1)
        /\ Observed(ObsAt(This', s)) = Succeeds(last'.item)
        /\ \A j \in 0..(s - 1) :
              Observed(ObsAt(This', j)) = Observed(ObsAt(This, j))]_vars

\* C9 witness: an Append made a Vector of two elements one of three, whose
\* new last element differs from the first.
C9_Witness ==
    /\ last.op = "Append"
    /\ last.hr = S_OK
    /\ Len(mVector) = 3
    /\ mVector[3] = last.item
    /\ mVector[1] # last.item

\* C10: in every state InsertAt(size, v) and Append(v) return the same
\* HRESULT and leave the same Vector (buffer, isFixedSize and isChanged),
\* with or without an allocation failure, on resizable and fixed-size
\* Vectors, and every call on every existing view and iterator returns the
\* same after the one as after the other.
C10_InsertAtEndIsAppend ==
    \A item \in Values, fault \in Faults :
        LET a == Vector_InsertAt(This, Traits_GetSize(mVector), item, fault)
            b == Vector_Append(This, item, fault) IN
        /\ a = b
        /\ \A v \in DOMAIN views :
              /\ \A size \in OutValue :
                    VectorView_get_Size(a.vec, size) = VectorView_get_Size(b.vec, size)
              /\ \A args \in GetAtArgs :
                    VectorView_GetAt(a.vec, args[1], args[2])
                        = VectorView_GetAt(b.vec, args[1], args[2])
              /\ \A args \in IndexOfArgs :
                    VectorView_IndexOf(a.vec, args[1], args[2], args[3])
                        = VectorView_IndexOf(b.vec, args[1], args[2], args[3])
        /\ \A i \in DOMAIN iters :
              /\ \A current \in OutValue :
                    VectorIterator_get_Current(iters[i], a.vec, current)
                        = VectorIterator_get_Current(iters[i], b.vec, current)
              /\ \A hasCurrent \in OutBool :
                    /\ VectorIterator_get_HasCurrent(iters[i], a.vec, hasCurrent)
                          = VectorIterator_get_HasCurrent(iters[i], b.vec, hasCurrent)
                    /\ VectorIterator_MoveNext(iters[i], a.vec, hasCurrent)
                          = VectorIterator_MoveNext(iters[i], b.vec, hasCurrent)

\* C10 witness: InsertAt at the end of a Vector of two elements succeeded
\* while a view and an iterator exist.
C10_Witness ==
    /\ last.op = "InsertAt"
    /\ last.hr = S_OK
    /\ Len(mVector) = 3
    /\ last.index = 2
    /\ DOMAIN views # {}
    /\ DOMAIN iters # {}

\* The positions (from 0) of the elements equal to the value the last
\* IndexOf asked for.
MatchesOfLast == {j \in 0..(Len(mVector) - 1) : mVector[j + 1] = last.item}

\* C11: IndexOf with valid output cells returns S_OK; when some element
\* equals the value it sets found = true and index = the smallest position
\* of such an element; when none does (an empty Vector included) it sets
\* found = false and index = 0.
C11_IndexOfFirstMatch ==
    (last.op = "IndexOf" /\ last.out # NullArg /\ last.out2 # NullArg) =>
        /\ last.hr = S_OK
        /\ MatchesOfLast # {} =>
              /\ last.out2 = Cell(TRUE)
              /\ Deref(last.out) \in MatchesOfLast
              /\ \A j \in MatchesOfLast : Deref(last.out) <= j
        /\ MatchesOfLast = {} =>
              /\ last.out2 = Cell(FALSE)
              /\ last.out = Cell(0)

\* C11 witness: IndexOf found the value at position 1 of a Vector that holds
\* it again at position 2.
C11_Witness ==
    /\ last.op = "IndexOf"
    /\ last.hr = S_OK
    /\ last.out = Cell(1)
    /\ last.out2 = Cell(TRUE)
    /\ MatchesOfLast = {1, 2}

\* What MoveNext on iterator i with a valid output cell would return now.
MoveNextOf(i) ==
    VectorIterator_MoveNext(iters[i], Target(iters[i].mVector), Cell(TRUE))

\* C12: once Clear has succeeded on a resizable Vector, get_Size returns 0
\* and for every iterator issued before, at whatever position,
\* get_HasCurrent returns false and get_Current and MoveNext return
\* E_BOUNDS, MoveNext leaving the position as it is.
C12_ClearEndsIterators ==
    (last.op = "Clear" /\ last.hr = S_OK /\ ~isFixedSize) =>
        /\ Observed(ObsSize(This)) = Succeeds(0)
        /\ \A i \in DOMAIN iters :
              /\ HasCurrentOf(i) = Succeeds(FALSE)
              /\ CurrentOf(i).hr = E_BOUNDS
              /\ MoveNextOf(i).hr = E_BOUNDS
              /\ MoveNextOf(i).it = iters[i]

\* C12 witness: Clear succeeded while an iterator stands at position 2.
C12_Witness ==
    /\ last.op = "Clear"
    /\ last.hr = S_OK
    /\ \E i \in DOMAIN iters : iters[i].mPosition = 2

\* C13: RemoveAtEnd on an empty resizable Vector computes the index
\* size - 1 = 0xFFFFFFFF, which is >= size in the unsigned order, returns
\* E_BOUNDS and leaves the buffer empty and isChanged as it was; on a
\* non-empty resizable Vector it returns S_OK and removes the element at
\* size - 1 and no other.
C13_RemoveAtEnd ==
    [][(last'.op = "RemoveAtEnd" /\ ~isFixedSize) =>
        LET size == Traits_GetSize(mVector) IN
        /\ size = 0 =>
              /\ UDec(size) = UINT_MAX
              /\ UGe(UDec(size), size)
              /\ last'.hr = E_BOUNDS
              /\ mVector' = << >>
              /\ isChanged' = isChanged
        /\ size > 0 =>
              /\ last'.hr = S_OK
              /\ Len(mVector') = size - 1
              /\ \A j \in 1..(size - 1) : mVector'[j] = mVector[j]]_vars

\* C13 witness: RemoveAtEnd returned E_BOUNDS on an empty resizable Vector
\* whose isChanged is false.
C13_Witness ==
    /\ last.op = "RemoveAtEnd"
    /\ last.hr = E_BOUNDS
    /\ ~isFixedSize
    /\ ~isChanged
    /\ Len(mVector) = 0

\* The statuses a boundary method may return.
Statuses == {S_OK, E_INVALIDARG, E_BOUNDS, E_NOTIMPL, E_OUTOFMEMORY, E_UNEXPECTED}
\* What the boundary makes of each way a body can end.
BoundaryMapsFaults ==
    /\ \A hr \in Statuses \ {S_OK} : ExceptionBoundary(ThrowHR(hr)) = hr
    /\ ExceptionBoundary(ThrowBadAlloc) = E_OUTOFMEMORY
    /\ ExceptionBoundary(ThrowOther) = E_UNEXPECTED
    /\ ExceptionBoundary(NoExc) = S_OK
\* The status of an injected fault that is not an HResultException.
FaultStatus(fault) == IF fault = "bad_alloc" THEN E_OUTOFMEMORY ELSE E_UNEXPECTED

\* C14: every call of every method of the Vector, its views and its
\* iterators returns one of the six statuses.  A body that throws
\* HResultException(hr) returns hr (E_NOTIMPL from the fixed-size check,
\* E_INVALIDARG from a null pointer, E_BOUNDS from a bounds check); a
\* std::bad_alloc (from the buffer or from Make<>) returns E_OUTOFMEMORY;
\* any other exception returns E_UNEXPECTED; a body that throws nothing
\* returns S_OK.
C14_ExceptionBoundary ==
    /\ []BoundaryMapsFaults
    /\ [][/\ last'.hr \in Statuses
          /\ (last'.op \in ResizingOps /\ isFixedSize) => last'.hr = E_NOTIMPL
          /\ (last'.op \in {"get_Size", "GetAt", "View.get_Size", "View.GetAt",
                            "GetView", "First", "View.First", "get_Current",
                            "get_HasCurrent", "MoveNext"}
                /\ last'.out = NullArg) => last'.hr = E_INVALIDARG
          /\ (last'.op \in {"SetAt", "RemoveAt"} /\ ~isFixedSize
                /\ UGe(last'.index, Len(mVector))) => last'.hr = E_BOUNDS
          /\ (last'.op = "Append" /\ ~isFixedSize /\ last'.fault # NoFault) =>
                last'.hr = FaultStatus(last'.fault)
          /\ (last'.op = "InsertAt" /\ ~isFixedSize /\ last'.fault # NoFault
                /\ ~UGt(last'.index, Len(mVector))) =>
                last'.hr = FaultStatus(last'.fault)
          /\ (last'.op = "ReplaceAll" /\ ~isFixedSize /\ last'.fault # NoFault
                /\ last'.value # NullArg /\ last'.count # Len(mVector)) =>
                last'.hr = FaultStatus(last'.fault)
          /\ (last'.op \in {"GetView", "First", "View.First"}
                /\ last'.out = Cell(nullptr)) => last'.hr = E_OUTOFMEMORY
          /\ (last'.op \in {"get_Size", "View.get_Size", "get_HasCurrent"}
                /\ last'.out # NullArg) => last'.hr = S_OK
          /\ (last'.op \in {"Append", "Clear", "RemoveAtEnd"} /\ ~isFixedSize
                /\ last'.fault = NoFault /\ Len(mVector) > 0) => last'.hr = S_OK
         ]_vars

\* C14 witness: an Append whose push_back threw an exception other than
\* std::bad_alloc returned E_UNEXPECTED.
C14_Witness ==
    /\ last.op = "Append"
    /\ last.fault = "other"
    /\ last.hr = E_UNEXPECTED

\* The Vector object exists: its reference count has not reached 0.
VectorAlive == refCount > 0

\* C15: while a view or an iterator exists the Vector is not destroyed, and
\* destroying a view or an iterator while the owner, another view or
\* another iterator still holds the Vector leaves it alive with its buffer,
\* isFixedSize and isChanged as they were.
C15_SharedOwnership ==
    /\ []((DOMAIN views # {} \/ DOMAIN iters # {}) => VectorAlive)
    /\ [][(/\ last'.op \in {"View.Release", "Iterator.Release"}
           /\ (owner' \/ DOMAIN views' # {} \/ DOMAIN iters' # {})) =>
              /\ VectorAlive'
              /\ mVector' = mVector
              /\ isFixedSize' = isFixedSize
              /\ isChanged' = isChanged]_vars

\* C15 witness: the owner has released the Vector, an iterator was then
\* destroyed, and the Vector lives on through a view.
C15_Witness ==
    /\ last.op = "Iterator.Release"
    /\ ~owner
    /\ DOMAIN views # {}
    /\ VectorAlive

\* Every iterator stands at a position from 0 to the size of the Vector.
PositionsInRange ==
    \A i \in DOMAIN iters :
        /\ 0 <= iters[i].mPosition
        /\ iters[i].mPosition <= Traits_GetSize(Target(iters[i].mVector).mVector)
\* The calls that can make the Vector shorter.
ShrinkingOps == {"RemoveAt", "RemoveAtEnd", "Clear", "ReplaceAll"}

\* C16 as stated: in every reachable state every iterator has
\* 0 <= position <= size, whatever calls were interleaved.
C16_Original == PositionsInRange

\* C16 as amended: every iterator has 0 <= position in every reachable
\* state, a new iterator starts at 0, and every call other than RemoveAt,
\* RemoveAtEnd, Clear and ReplaceAll keeps position <= size for every
\* iterator (MoveNext never steps past the size).
C16_PositionInRange ==
    /\ [](\A i \in DOMAIN iters : 0 <= iters[i].mPosition)
    /\ [][/\ \A i \in DOMAIN iters' \ DOMAIN iters : iters'[i].mPosition = 0
          /\ (PositionsInRange /\ last'.op \notin ShrinkingOps) =>
                PositionsInRange']_vars

\* C16 witness: an InsertAt succeeded while an iterator stood at position 2
\* of a Vector that now holds three elements.
C16_Witness ==
    /\ last.op = "InsertAt"
    /\ last.hr = S_OK
    /\ Len(mVector) = 3
    /\ \E i \in DOMAIN iters : iters[i].mPosition = 2

\* C17: MoveNext with a valid output cell returns E_BOUNDS exactly when
\* position >= size of the Vector as it is at the call, and then leaves the
\* position as it was; otherwise it returns S_OK, the position is larger
\* by one, and the boolean it stores is the one get_HasCurrent returns
\* right after.
C17_MoveNext ==
    [][\A i \in DOMAIN iters :
          (last'.op = "MoveNext" /\ last'.it = i /\ last'.out # NullArg) =>
              LET position == iters[i].mPosition
                  size == Traits_GetSize(Target(iters[i].mVector).mVector) IN
              /\ (last'.hr = E_BOUNDS) <=> UGe(position, size)
              /\ last'.hr = E_BOUNDS => iters'[i].mPosition = position
              /\ last'.hr # E_BOUNDS =>
                    /\ last'.hr = S_OK
                    /\ iters'[i].mPosition = position + 1
                    /\ HasCurrentOf(i)' = [hr |-> S_OK, out |-> last'.out]]_vars

\* C17 witness: MoveNext returned E_BOUNDS to an iterator standing at the
\* end of a Vector of two elements.
C17_Witness ==
    /\ MovedNext
    /\ last.hr = E_BOUNDS
    /\ Len(mVector) = 2
    /\ iters[last.it].mPosition = 2

\* The size of the Vector iterator i refers to.
SizeFor(i) == Traits_GetSize(Target(iters[i].mVector).mVector)

\* C18 as stated: no call makes the position of an iterator smaller, and
\* for an iterator at position == size no call on it or on the Vector
\* changes its position or makes get_HasCurrent return true.
C18_Original ==
    [][\A i \in DOMAIN iters \cap DOMAIN iters' :
          /\ iters'[i].mPosition >= iters[i].mPosition
          /\ iters[i].mPosition = SizeFor(i) =>
                /\ iters'[i].mPosition = iters[i].mPosition
                /\ HasCurrentOf(i)' = Succeeds(FALSE)]_vars

\* C18 as amended: no call makes the position of an iterator smaller, and
\* for an iterator at position >= size every call that does not make the
\* Vector larger leaves its position as it was and get_HasCurrent
\* returning false.
C18_NoReverseNoReset ==
    [][\A i \in DOMAIN iters \cap DOMAIN iters' :
          /\ iters'[i].mPosition >= iters[i].mPosition
          /\ (iters[i].mPosition >= SizeFor(i) /\ SizeFor(i)' <= SizeFor(i)) =>
                /\ iters'[i].mPosition = iters[i].mPosition
                /\ HasCurrentOf(i)' = Succeeds(FALSE)]_vars

\* C18 witness: RemoveAtEnd took the last of three elements while an
\* iterator stood at position 3.
C18_Witness ==
    /\ last.op = "RemoveAtEnd"
    /\ last.hr = S_OK
    /\ Len(mVector) = 2
    /\ \E i \in DOMAIN iters : iters[i].mPosition = 3

\* C19: a call that leaves the buffer different from what it was leaves
\* isChanged true, whether it succeeded or failed, and no call other than
\* the owner's SetChanged makes isChanged false.
C19_ChangedTracksBuffer ==
    [][/\ mVector' # mVector => isChanged'
       /\ (isChanged /\ last'.op # "SetChanged") => isChanged']_vars

\* C20: a call that returns E_INVALIDARG, E_BOUNDS or E_NOTIMPL leaves the
\* buffer (contents and size), isChanged, the set of iterators and the
\* position of every iterator as they were.
C20_FailureChangesNothing ==
    [][last'.hr \in {E_INVALIDARG, E_BOUNDS, E_NOTIMPL} =>
          /\ mVector' = mVector
          /\ Observed(ObsSize(This')) = Observed(ObsSize(This))
          /\ isChanged' = isChanged
          /\ DOMAIN iters' = DOMAIN iters
          /\ \A i \in DOMAIN iters : iters'[i].mPosition = iters[i].mPosition]_vars

\* C20 witness: ReplaceAll with another number of elements was refused on
\* a fixed-size Vector of two elements while an iterator stood at
\* position 1.
C20_Witness ==
    /\ last.op = "ReplaceAll"
    /\ last.hr = E_NOTIMPL
    /\ last.count # Len(mVector)
    /\ Len(mVector) = 2
    /\ \E i \in DOMAIN iters : iters[i].mPosition = 1

\* The calls that only read.
ReadOps ==
    {"get_Size", "GetAt", "IndexOf", "GetView", "First",
     "View.get_Size", "View.GetAt", "View.IndexOf", "View.First",
     "get_Current", "get_HasCurrent"}

\* C21: get_Size, GetAt, IndexOf, GetView and First on the Vector or on a
\* view, get_Current and get_HasCurrent leave the buffer, isChanged,
\* isFixedSize and the position of every iterator as they were; MoveNext
\* leaves the Vector and every other iterator as they were; and every
\* iterator First creates, from the Vector or from a view, starts at
\* position 0.
C21_ReadsChangeNothing ==
    [][/\ last'.op \in ReadOps \cup {"MoveNext"} =>
             /\ mVector' = mVector
             /\ isChanged' = isChanged
             /\ isFixedSize' = isFixedSize
             /\ DOMAIN iters \subseteq DOMAIN iters'
       /\ last'.op \in ReadOps =>
             \A i \in DOMAIN iters : iters'[i].mPosition = iters[i].mPosition
       /\ last'.op = "MoveNext" =>
             \A i \in DOMAIN iters \ {last'.it} : iters'[i] = iters[i]
       /\ (last'.op \in {"First", "View.First"} /\ last'.hr = S_OK) =>
             /\ DOMAIN iters' # DOMAIN iters
             /\ \A i \in DOMAIN iters' \ DOMAIN iters : iters'[i].mPosition = 0
      ]_vars

\* C21 witness: of two iterators over a Vector that has been changed, one
\* has moved to position 2 and the other still stands at position 0.
C21_Witness ==
    /\ MovedNext
    /\ last.hr = S_OK
    /\ isChanged
    /\ DOMAIN iters = {1, 2}
    /\ iters[last.it].mPosition = 2
    /\ \E i \in DOMAIN iters : iters[i].mPosition = 0

\* C22: a successful InsertAt(i, v) on a buffer of n elements has i <= n and
\* leaves n + 1 elements: the first i as they were, v at index i, and each
\* element that was at index k >= i now at index k + 1. A successful
\* RemoveAt(i) has i < n and leaves n - 1 elements: the first i as they were
\* and each element that was at index k > i now at index k - 1. Both happen
\* on a resizable Vector only.
C22_InsertRemoveShift ==
    [][LET n == Len(mVector)
           i == last'.index IN
       /\ (last'.op = "InsertAt" /\ last'.hr = S_OK) =>
             /\ ~isFixedSize
             /\ i \in 0..n
             /\ Len(mVector') = n + 1
             /\ \A k \in 0..(i - 1) : mVector'[k + 1] = mVector[k + 1]
             /\ Unwrap(mVector'[i + 1]) = last'.item
             /\ \A k \in i..(n - 1) : mVector'[k + 2] = mVector[k + 1]
       /\ (last'.op = "RemoveAt" /\ last'.hr = S_OK) =>
             /\ ~isFixedSize
             /\ i \in 0..(n - 1)
             /\ Len(mVector') = n - 1
             /\ \A k \in 0..(i - 1) : mVector'[k + 1] = mVector[k + 1]
             /\ \A k \in (i + 1)..(n - 1) : mVector'[k] = mVector[k + 1]
      ]_vars

\* C22 witness: InsertAt has put an element between two others that differ
\* from it, so that a shift in the wrong direction or a misplaced element
\* would show.
C22_Witness ==
    /\ last.op = "InsertAt"
    /\ last.hr = S_OK
    /\ last.index = 1
    /\ Len(mVector) = 3
    /\ mVector[1] # mVector[3]
    /\ Unwrap(mVector[2]) = last.item

\* The loop has left its while statement.
LoopOver == loop.pc \in {"after", "done"}

\* C23: on a Vector of n elements that nobody mutates, the loop
\*     first(); while (hasCurrent()) { current(); moveNext(); }
\* ends (or first() fails and it never starts); when it has ended it has
\* made exactly n MoveNext calls, all S_OK, the first n - 1 storing true and
\* the n-th false; it has read positions 0, 1, ..., n - 1 in that order,
\* once each, each read S_OK with that element; and mPosition = n. One more
\* MoveNext, the (n + 1)-th, is the only one that returns E_BOUNDS.
C23_Loop ==
    /\ <>(loop.pc \in {"done", "nofirst"})
    /\ [](LoopOver =>
            LET n == Len(mVector) IN
            /\ Len(loop.moves) = IF loop.pc = "done" THEN n + 1 ELSE n
            /\ \A k \in 1..n :
                  /\ loop.moves[k] = [hr |-> S_OK, out |-> Cell(k < n)]
                  /\ loop.reads[k] = [position |-> k - 1, hr |-> S_OK,
                                      out |-> Cell(Unwrap(mVector[k]))]
            /\ Len(loop.reads) = n
            /\ iters[loop.it].mPosition = n
            /\ loop.pc = "done" => loop.moves[n + 1].hr = E_BOUNDS)

\* C23 witness: the loop has run over three elements that are not all the
\* same, and the call after it has been made.
C23_Witness ==
    /\ loop.pc = "done"
    /\ Len(mVector) = 3
    /\ mVector[1] # mVector[2]
    /\ Len(loop.reads) = 3
    /\ Len(loop.moves) = 4

====
